---- MODULE Spec2Model ----
(***************************************************************************)
(* Model of the PAICE attestation contract (src/src/lib.rs): a LookupMap   *)
(* from session id to Attestation plus a u64 counter, with the entry       *)
(* points attest, verify and get_attestation_count.  Each call is one      *)
(* atomic step (the host runs one call at a time and discards the state    *)
(* changes of a call that panics).                                         *)
(***************************************************************************)
EXTENDS Integers, FiniteSets, Sequences, TLC

\* ---- bounds of the model ----
\* number of calls explored (the u64 counter cannot overflow within it)
MaxCalls == 3
\* block timestamps the host may report are 1..MaxTime
MaxTime == 2

\* ---- inputs ----
\* session ids a caller may pass, the empty string included
SessionIds == {"", "sess-1", "sess-2"}
\* score hashes a caller may pass, the empty string included
ScoreHashes == {"", "abc123", "def456"}
\* env::block_timestamp() values
Timestamps == 1..MaxTime
\* env::predecessor_account_id() values
Accounts == {"alice.testnet", "bob.testnet"}

\* Option::None
None == [none |-> TRUE]

\* struct Attestation { score_hash, timestamp, attester }
Attestation(score_hash, timestamp, attester) ==
    [score_hash |-> score_hash, timestamp |-> timestamp, attester |-> attester]

\* String::is_empty
is_empty(s) == s = ""

VARIABLES
    attestations,       \* Contract.attestations: session id -> Attestation or None
    attestation_count,  \* Contract.attestation_count
    call,               \* the call that ran last: entry point, arguments, context
    ret,                \* its outcome: "ok" / "panic", and the value returned
    pre,                \* the contract state that call started from
    prev,               \* the call before it, when it was a successful attest:
                        \* its session id and the counter it started from
    history             \* per session id: passed to attest?, context of the last
                        \* successful attest; and the number of successful attests

vars == <<attestations, attestation_count, call, ret, pre, prev, history>>

\* the contract state as one value
Store == [attestations |-> attestations, attestation_count |-> attestation_count]

\* impl Default for Contract
ContractDefault ==
    [attestations |-> [k \in SessionIds |-> None], attestation_count |-> 0]

\* insert that keeps an existing entry (entry().or_insert)
InsertIfAbsent(map, key, value) ==
    IF map[key] = None THEN [map EXCEPT ![key] = value] ELSE map

\* insert into a map that was emptied first
InsertCleared(map, key, value) ==
    [k \in DOMAIN map |-> IF k = key THEN value ELSE None]

\* insert that writes the value under every key already present as well
InsertShared(map, key, value) ==
    [k \in DOMAIN map |-> IF k = key \/ map[k] # None THEN value ELSE map[k]]

\* LookupMap::insert: replaces whatever is under the key
Insert(map, key, value) == [map EXCEPT ![key] = value]

\* lookup that falls back to a default record (unwrap_or_default)
GetOrDefault(map, key) ==
    IF map[key] = None THEN Attestation("", 0, "") ELSE map[key]

\* LookupMap::get(..).cloned()
Get(map, key) == map[key]

\* only the session id is checked
AttestPanicsSessionOnly(session_id, score_hash) ==
    is_empty(session_id)

\* the call is rejected only when both arguments are empty
AttestPanicsBothEmpty(session_id, score_hash) ==
    is_empty(session_id) /\ is_empty(score_hash)

\* the two assert! lines of attest
AttestPanics(session_id, score_hash) ==
    is_empty(session_id) \/ is_empty(score_hash)

\* the increment left out
IncrementMissing(n) == n

\* the counter after `self.attestation_count += 1`
Increment(n) == n + 1

\* attest that counts distinct session ids: no increment on an overwrite
AttestEffectCountKeys(store, session_id, score_hash, timestamp, attester) ==
    [attestations |->
        Insert(store.attestations, session_id,
               Attestation(score_hash, timestamp, attester)),
     attestation_count |->
        IF store.attestations[session_id] = None
        THEN Increment(store.attestation_count)
        ELSE store.attestation_count]

\* attest that keeps the timestamp and attester of the record it replaces
AttestEffectKeepContext(store, session_id, score_hash, timestamp, attester) ==
    LET old == store.attestations[session_id]
    IN [attestations |->
           Insert(store.attestations, session_id,
                  IF old = None
                  THEN Attestation(score_hash, timestamp, attester)
                  ELSE Attestation(score_hash, old.timestamp, old.attester)),
        attestation_count |-> Increment(store.attestation_count)]

\* the state attest leaves when it runs to completion
AttestEffect(store, session_id, score_hash, timestamp, attester) ==
    [attestations |->
        Insert(store.attestations, session_id,
               Attestation(score_hash, timestamp, attester)),
     attestation_count |-> Increment(store.attestation_count)]

\* the call that ran last becomes the call before it
Shift ==
    IF call.op = "attest" /\ ret.status = "ok"
    THEN [op |-> "attest", session_id |-> call.session_id,
          attestation_count |-> pre.attestation_count]
    ELSE [op |-> "other"]

Init ==
    /\ attestations = ContractDefault.attestations
    /\ attestation_count = ContractDefault.attestation_count
    /\ call = [op |-> "new"]
    /\ ret = [status |-> "ok", value |-> None]
    /\ pre = ContractDefault
    /\ prev = [op |-> "other"]
    /\ history = [passed |-> {},
                  ctx |-> [k \in SessionIds |-> None],
                  successes |-> 0]

\* pub fn attest(&mut self, session_id, score_hash), called by `attester` in a
\* block stamped `timestamp`
Attest(session_id, score_hash, timestamp, attester) ==
    /\ attestation_count < MaxCalls
    /\ call' = [op |-> "attest", session_id |-> session_id,
                score_hash |-> score_hash, timestamp |-> timestamp,
                attester |-> attester]
    /\ pre' = Store
    /\ prev' = Shift
    /\ IF AttestPanics(session_id, score_hash)
       THEN /\ ret' = [status |-> "panic", value |-> None]
            /\ UNCHANGED <<attestations, attestation_count>>
            /\ history' = [history EXCEPT !.passed = @ \cup {session_id}]
       ELSE LET post == AttestEffect(Store, session_id, score_hash,
                                     timestamp, attester)
            IN /\ attestations' = post.attestations
               /\ attestation_count' = post.attestation_count
               /\ ret' = [status |-> "ok", value |-> None]
               /\ history' = [passed |-> history.passed \cup {session_id},
                              ctx |-> [history.ctx EXCEPT ![session_id] =
                                         [timestamp |-> timestamp,
                                          attester |-> attester]],
                              successes |-> history.successes + 1]

\* pub fn verify(&self, session_id) -> Option<Attestation>
Verify(session_id) ==
    /\ call' = [op |-> "verify", session_id |-> session_id]
    /\ pre' = Store
    /\ prev' = Shift
    /\ ret' = [status |-> "ok", value |-> Get(attestations, session_id)]
    /\ UNCHANGED <<attestations, attestation_count, history>>

\* pub fn get_attestation_count(&self) -> u64
GetAttestationCount ==
    /\ call' = [op |-> "get_attestation_count"]
    /\ pre' = Store
    /\ prev' = Shift
    /\ ret' = [status |-> "ok", value |-> attestation_count]
    /\ UNCHANGED <<attestations, attestation_count, history>>

Next ==
    \/ \E s \in SessionIds, h \in ScoreHashes, t \in Timestamps, a \in Accounts :
          Attest(s, h, t, a)
    \/ \E s \in SessionIds : Verify(s)
    \/ GetAttestationCount

Spec == Init /\ [][Next]_vars

\* ---- properties ----

\* the last call was attest and ran to completion
AttestSucceeded == call.op = "attest" /\ ret.status = "ok"

\* the last call was attest and panicked
AttestFailed == call.op = "attest" /\ ret.status = "panic"

\* the session ids that have a record
Stored == {s \in SessionIds : Get(attestations, s) # None}

\* C1: right after attest(session_id, score_hash) with both arguments non-empty,
\* the call has succeeded and verify(session_id) gives a record whose
\* score_hash is the one supplied.
C1_AttestThenVerify ==
    (call.op = "attest" /\ ~is_empty(call.session_id) /\ ~is_empty(call.score_hash))
        => /\ ret.status = "ok"
           /\ Get(attestations, call.session_id) # None
           /\ Get(attestations, call.session_id).score_hash = call.score_hash

\* an attest that replaced a record holding another hash
C1_Witness ==
    /\ AttestSucceeded
    /\ pre.attestations[call.session_id] # None
    /\ pre.attestations[call.session_id].score_hash # call.score_hash

\* C2: an attest with an empty session_id or an empty score_hash fails and
\* leaves the map and the counter as they were before the call.
C2_RejectionLeavesStore ==
    (call.op = "attest" /\ (is_empty(call.session_id) \/ is_empty(call.score_hash)))
        => /\ ret.status = "panic"
           /\ attestations = pre.attestations
           /\ attestation_count = pre.attestation_count

\* an attest with an empty hash for a session id that has a record
C2_Witness ==
    /\ AttestFailed
    /\ ~is_empty(call.session_id)
    /\ is_empty(call.score_hash)
    /\ pre.attestations[call.session_id] # None

C5_NeverAttestedAbsent ==
    /\ \A s \in SessionIds \ history.passed : Get(attestations, s) = None
    /\ (call.op = "verify" /\ call.session_id \notin history.passed)
          => ret.value = None

\* verify of a fresh session id while another one has a record
C5_Witness ==
    /\ call.op = "verify"
    /\ ~is_empty(call.session_id)
    /\ call.session_id \notin history.passed
    /\ Stored # {}
    /\ ret.value = None

\* C6: no record is stored under the empty session id and no stored record has
\* an empty score_hash.
C6_NoEmptyRecord ==
    \A s \in Stored : ~is_empty(s) /\ ~is_empty(Get(attestations, s).score_hash)

\* records exist and both kinds of empty argument have been tried
C6_Witness ==
    /\ Stored # {}
    /\ "" \in history.passed
    /\ AttestFailed
    /\ is_empty(call.score_hash)

\* C7: the timestamp and attester of every stored record are those of the
\* latest successful attest for its session id.
C7_ContextOfLastWrite ==
    \A s \in Stored :
        /\ history.ctx[s] # None
        /\ Get(attestations, s).timestamp = history.ctx[s].timestamp
        /\ Get(attestations, s).attester = history.ctx[s].attester

\* a record replaced by a caller and at a time both different from the first
C7_Witness ==
    /\ AttestSucceeded
    /\ pre.attestations[call.session_id] # None
    /\ pre.attestations[call.session_id].timestamp # call.timestamp
    /\ pre.attestations[call.session_id].attester # call.attester

\* C8: get_attestation_count returns the number of session ids that have a
\* record.
C8_CountIsStoredRecords ==
    /\ attestation_count = Cardinality(Stored)
    /\ call.op = "get_attestation_count" => ret.value = Cardinality(Stored)

\* C9: a session id that has a record has one after every call.
C9_NeverDeleted ==
    [][\A s \in SessionIds :
          Get(attestations, s) # None => Get(attestations', s) # None]_vars

\* a successful attest in a state where another session id has a record
C9_Witness ==
    /\ AttestSucceeded
    /\ \E t \in SessionIds \ {call.session_id} : pre.attestations[t] # None
    /\ pre.attestations[call.session_id] = None

\* C10: a successful attest(s, h) leaves the entry of every other session id
\* as it was.
C10_AttestFrame ==
    AttestSucceeded =>
        \A t \in SessionIds \ {call.session_id} :
            Get(attestations, t) = Get(pre.attestations, t)

\* an overwrite while another session id has a record
C10_Witness ==
    /\ AttestSucceeded
    /\ pre.attestations[call.session_id] # None
    /\ \E t \in SessionIds \ {call.session_id} : pre.attestations[t] # None

====
